---- MODULE Spec2Model ----
(***************************************************************************)
(* Model of the LILC abstract syntax tree of ast.hpp: the node classes,    *)
(* their constructors, the std::list members of the list nodes, the token  *)
(* carriers the leaf nodes are built from, and the unparse protocol.       *)
(*                                                                         *)
(* Memory is modelled as three stores.  An address is an index into its    *)
(* store, and the null pointer is 0.                                       *)
(*   heap   : the AST node objects, in allocation order                    *)
(*   lists  : the std::list objects, both the builder's working lists      *)
(*            (owner = 0) and the list members embedded in list nodes      *)
(*            (owner = address of the node)                                *)
(*   tokens : the token carriers handed over by the lexer                  *)
(***************************************************************************)
EXTENDS Integers, Sequences, FiniteSets, TLC

VARIABLES heap, lists, tokens, sinks, pc, script, stack

vars == <<heap, lists, tokens, sinks, pc, script, stack>>

null == 0

\* ------------------------------------------------------------------ bounds
MaxNodes == 3
MaxTreeNodes == 2
MaxLen == 1
MaxTokens == 1
MaxIndent == 2
MaxDecls == 2
MaxOut == 4

\* ------------------------------------------------------- program constants
NOT_STRUCT_Zero == -1 + 1
NOT_STRUCT == -1

\* ------------------------------------------------------------ class kinds
TypeKinds == {"IntNode", "BoolNode", "VoidNode", "StructNode"}
DeclKinds == {"VarDeclNode", "FnDeclNode", "FormalDeclNode", "StructDeclNode"}
StmtKinds == {"AssignStmtNode"}
ExpKinds == {"IdNode", "AssignNode", "DotAccessNode", "IntLitNode",
             "StrLitNode", "TrueNode"}

Families == {"Decl", "Formal", "Stmt", "Exp"}

\* The classes a std::list<X *> of each family may point to.
FamilyKinds(family) ==
    CASE family = "Decl" -> DeclKinds
      [] family = "Formal" -> {"FormalDeclNode"}
      [] family = "Stmt" -> StmtKinds
      [] family = "Exp" -> ExpKinds

\* ---------------------------------------------------------------- memory
Mem == [heap |-> heap, lists |-> lists]

Alloc(m, node) == [m EXCEPT !.heap = Append(@, node)]

\* The address operator new returns for the node under construction.
NewAddr(m) == Len(m.heap) + 1

\* A list node's std::list member: a fresh list object holding a copy of
\* the elements of src (std::list's copy assignment), owned by the node.
CopyList(m, src) ==
    [family |-> src.family, elems |-> src.elems, owner |-> NewAddr(m)]

\* ----------------------------------------------------------- constructors
ProgramNode(m, L) ==
    Alloc(m, [kind |-> "ProgramNode", myDeclList |-> L])

ExpListNode(m, expList) ==
    [heap |-> Append(m.heap, [kind |-> "ExpListNode",
                              myExpList |-> Len(m.lists) + 1]),
     lists |-> Append(m.lists, CopyList(m, m.lists[expList]))]

DeclListNodeAlias(m, decls) ==
    Alloc(m, [kind |-> "DeclListNode", myDecls |-> decls])

DeclListNode(m, decls) ==
    [heap |-> Append(m.heap, [kind |-> "DeclListNode",
                              myDecls |-> Len(m.lists) + 1]),
     lists |-> Append(m.lists, CopyList(m, m.lists[decls]))]

VarDeclNode(m, type, id, size) ==
    Alloc(m, [kind |-> "VarDeclNode", myType |-> type, myId |-> id,
              mySize |-> size])

\* token->value() copied into the std::string member.
IdNode(m, value) ==
    Alloc(m, [kind |-> "IdNode", myStrVal |-> value])

IntNode(m) == Alloc(m, [kind |-> "IntNode"])

BoolNode(m) == Alloc(m, [kind |-> "BoolNode"])

VoidNode(m) == Alloc(m, [kind |-> "VoidNode"])

StructDeclNode(m, id, declList) ==
    Alloc(m, [kind |-> "StructDeclNode", myId |-> id,
              myDeclList |-> declList])

StructNode(m, id) ==
    Alloc(m, [kind |-> "StructNode", myId |-> id])

FnDeclNode(m, type, id, formalsList, fnBody) ==
    Alloc(m, [kind |-> "FnDeclNode", myType |-> type, myId |-> id,
              myFormalsList |-> formalsList, myFnBody |-> fnBody])

FormalDeclNode(m, type, id) ==
    Alloc(m, [kind |-> "FormalDeclNode", myType |-> type, myId |-> id])

FormalsListNode(m, formalDeclList) ==
    [heap |-> Append(m.heap, [kind |-> "FormalsListNode",
                              myFormalDeclList |-> Len(m.lists) + 1]),
     lists |-> Append(m.lists, CopyList(m, m.lists[formalDeclList]))]

FnBodyNode(m, declList, stmtList) ==
    Alloc(m, [kind |-> "FnBodyNode", myDeclList |-> declList,
              myStmtList |-> stmtList])

StmtListNode(m, stmtList) ==
    [heap |-> Append(m.heap, [kind |-> "StmtListNode",
                              myStmtList |-> Len(m.lists) + 1]),
     lists |-> Append(m.lists, CopyList(m, m.lists[stmtList]))]

AssignStmtNode(m, assignNode) ==
    Alloc(m, [kind |-> "AssignStmtNode", myAssignNode |-> assignNode])

AssignNode(m, expNode1, expNode2) ==
    Alloc(m, [kind |-> "AssignNode", myExpNode1 |-> expNode1,
              myExpNode2 |-> expNode2])

DotAccessNodeSelf(m, expNode, id) ==
    Alloc(m, [kind |-> "DotAccessNode", myExp |-> NewAddr(m), myId |-> id])

DotAccessNode(m, expNode, id) ==
    Alloc(m, [kind |-> "DotAccessNode", myExp |-> expNode, myId |-> id])

\* The node keeps the pointer to the token carrier, not its value.
IntLitNode(m, intLit) ==
    Alloc(m, [kind |-> "IntLitNode", myIntLit |-> intLit])

StrLitNode(m, stringLit) ==
    Alloc(m, [kind |-> "StrLitNode", myStringLit |-> stringLit])

TrueNode(m) == Alloc(m, [kind |-> "TrueNode"])

\* ------------------------------------------------------- tree structure
ListKinds == {"ExpListNode", "DeclListNode", "FormalsListNode",
              "StmtListNode"}

\* The address of a list node's std::list member.
ListOf(n) ==
    CASE n.kind = "ExpListNode" -> n.myExpList
      [] n.kind = "DeclListNode" -> n.myDecls
      [] n.kind = "FormalsListNode" -> n.myFormalDeclList
      [] n.kind = "StmtListNode" -> n.myStmtList

\* The member sequence of a list node, read through its std::list member.
Members(m, n) == m.lists[ListOf(n)].elems

\* The child pointers of a node, in declaration order.
Children(m, n) ==
    CASE n.kind = "ProgramNode" -> <<n.myDeclList>>
      [] n.kind \in ListKinds -> Members(m, n)
      [] n.kind = "VarDeclNode" -> <<n.myType, n.myId>>
      [] n.kind = "StructDeclNode" -> <<n.myId, n.myDeclList>>
      [] n.kind = "StructNode" -> <<n.myId>>
      [] n.kind = "FnDeclNode" ->
             <<n.myType, n.myId, n.myFormalsList, n.myFnBody>>
      [] n.kind = "FormalDeclNode" -> <<n.myType, n.myId>>
      [] n.kind = "FnBodyNode" -> <<n.myDeclList, n.myStmtList>>
      [] n.kind = "AssignStmtNode" -> <<n.myAssignNode>>
      [] n.kind = "AssignNode" -> <<n.myExpNode1, n.myExpNode2>>
      [] n.kind = "DotAccessNode" -> <<n.myExp, n.myId>>
      [] OTHER -> <<>>

Range(s) == {s[i] : i \in 1..Len(s)}

Addrs == 1..Len(heap)

ChildSet(a) == Range(Children(Mem, heap[a]))

RECURSIVE ReachFrom(_, _)
ReachFrom(S, n) ==
    IF n = 0
    THEN S
    ELSE ReachFrom(S \cup UNION {ChildSet(x) \ {null} : x \in S}, n - 1)

\* The nodes reachable from a through child pointers and list members.
Descendants(a) == ReachFrom(ChildSet(a) \ {null}, Len(heap))

\* ----------------------------------------------------- typed pointer sets
NodesOf(kinds) == {a \in Addrs : heap[a].kind \in kinds}

\* The values a pointer of static type K * can take: null or a live object.
Ptr(kinds) == {null} \cup NodesOf(kinds)

TokensOf(kind) == {t \in 1..Len(tokens) : tokens[t].kind = kind}

TokPtr(kind) == {null} \cup TokensOf(kind)

WorkLists(family) ==
    {l \in 1..Len(lists) : lists[l].owner = 0 /\ lists[l].family = family}

Commit(m) == heap' = m.heap /\ lists' = m.lists

CanAlloc == pc = "parsing" /\ script = <<>>

\* Values left in memory a null dereference may read.
GarbageStrings == {""}

\* What the lexer can put in a token carrier.
TokenValues(kind) ==
    CASE kind = "ID" -> {"a", "b"}
      [] kind = "INT" -> {7, 12}
      [] kind = "STR" -> {"\"s\"", "\"t\""}

TokenKinds == {"ID", "INT", "STR"}

\* The size arguments the client passes to VarDeclNode.
CtorSizes == {NOT_STRUCT, 3}

\* The list contents a read through a null std::list pointer may yield.
GarbageElems == {<<>>, <<null>>}

\* A list node built from what a null dereference produced.
WildListNode(m, kind, family, elems) ==
    [heap |-> Append(m.heap,
                     CASE kind = "DeclListNode" ->
                              [kind |-> kind, myDecls |-> Len(m.lists) + 1]
                       [] kind = "FormalsListNode" ->
                              [kind |-> kind,
                               myFormalDeclList |-> Len(m.lists) + 1]
                       [] kind = "StmtListNode" ->
                              [kind |-> kind,
                               myStmtList |-> Len(m.lists) + 1]),
     lists |-> Append(m.lists, [family |-> family, elems |-> elems,
                                owner |-> NewAddr(m)])]

Crash == pc' = "crashed" /\ UNCHANGED <<heap, lists>>

\* Dereferencing a null pointer is undefined: the process dies, or the copy
\* goes on with whatever the read produced.
NullListDeref(kind, family) ==
    \/ Crash
    \/ \E g \in GarbageElems :
          /\ Commit(WildListNode(Mem, kind, family, g))
          /\ UNCHANGED pc

\* The sequences of at most n elements of S.
SeqsUpTo(S, n) == UNION {[1..k -> S] : k \in 0..n}

\* A working std::list the builder assembled: new std::list filled with g.
Assemble(m, family, g) ==
    [m EXCEPT !.lists =
        Append(@, [family |-> family, elems |-> g, owner |-> 0])]

\* The working lists a builder can hand to a list node's constructor.
ListInputs(family) == SeqsUpTo(Ptr(FamilyKinds(family)), MaxLen)

\* ------------------------------------------------------------------ Init
NoRender ==
    [op |-> "none", root |-> null, indent |-> 0, before |-> <<>>, out |-> <<>>]

Sinks == {1, 2}

Init ==
    /\ heap = <<>>
    /\ lists = <<>>
    /\ tokens = <<>>
    /\ sinks = [s \in Sinks |-> NoRender]
    /\ pc = "parsing"
    /\ script = <<>>
    /\ stack = <<>>

\* -------------------------------------------------- the lexer (upstream)
\* The lexer hands over a new token carrier.
LexToken ==
    /\ pc = "parsing"
    /\ Len(tokens) < MaxTokens
    /\ \E k \in TokenKinds : \E v \in TokenValues(k) :
          tokens' = Append(tokens, [kind |-> k, value |-> v])
    /\ UNCHANGED <<heap, lists, sinks, pc, script, stack>>

\* The lexer reuses a carrier for the next lexeme of the same kind.
ReuseToken ==
    /\ pc = "parsing"
    /\ \E t \in 1..Len(tokens) : \E v \in TokenValues(tokens[t].kind) :
          /\ v # tokens[t].value
          /\ tokens' = [tokens EXCEPT ![t].value = v]
    /\ UNCHANGED <<heap, lists, sinks, pc, script, stack>>

\* ----------------------------------- the builder's working std::lists
PushBack ==
    /\ pc = "parsing"
    /\ \E f \in Families : \E l \in WorkLists(f) : \E p \in Ptr(FamilyKinds(f)) :
          /\ Len(lists[l].elems) < MaxLen
          /\ lists' = [lists EXCEPT ![l].elems = Append(@, p)]
    /\ UNCHANGED <<heap, tokens, sinks, pc, script, stack>>

PopFront ==
    /\ pc = "parsing"
    /\ \E f \in Families : \E l \in WorkLists(f) :
          /\ lists[l].elems # <<>>
          /\ lists' = [lists EXCEPT ![l].elems = Tail(@)]
    /\ UNCHANGED <<heap, tokens, sinks, pc, script, stack>>

ClearList ==
    /\ pc = "parsing"
    /\ \E f \in Families : \E l \in WorkLists(f) :
          /\ lists[l].elems # <<>>
          /\ lists' = [lists EXCEPT ![l].elems = <<>>]
    /\ UNCHANGED <<heap, tokens, sinks, pc, script, stack>>

\* --------------------------------------------- new X(...) by the client
NewProgramNode ==
    /\ CanAlloc
    /\ \E L \in Ptr({"DeclListNode"}) : Commit(ProgramNode(Mem, L))
    /\ UNCHANGED <<tokens, sinks, pc, script, stack>>

NewExpListNode ==
    /\ CanAlloc
    /\ \/ \E g \in ListInputs("Exp") :
             LET m == Assemble(Mem, "Exp", g)
             IN  Commit(ExpListNode(m, Len(m.lists))) /\ UNCHANGED pc
       \/ \E expList \in WorkLists("Exp") :
             Commit(ExpListNode(Mem, expList)) /\ UNCHANGED pc
    /\ UNCHANGED <<tokens, sinks, script, stack>>

NewDeclListNode ==
    /\ CanAlloc
    /\ \/ \E g \in ListInputs("Decl") :
             LET m == Assemble(Mem, "Decl", g)
             IN  Commit(DeclListNode(m, Len(m.lists))) /\ UNCHANGED pc
       \/ \E decls \in WorkLists("Decl") :
             Commit(DeclListNode(Mem, decls)) /\ UNCHANGED pc
       \/ NullListDeref("DeclListNode", "Decl")
    /\ UNCHANGED <<tokens, sinks, script, stack>>

NewVarDeclNode ==
    /\ CanAlloc
    /\ \E type \in Ptr(TypeKinds) : \E id \in Ptr({"IdNode"}) :
       \E size \in CtorSizes :
          Commit(VarDeclNode(Mem, type, id, size))
    /\ UNCHANGED <<tokens, sinks, pc, script, stack>>

NewIdNode ==
    /\ CanAlloc
    /\ \E token \in TokPtr("ID") :
          IF token = null
          THEN \/ Crash
               \/ \E g \in GarbageStrings :
                     Commit(IdNode(Mem, g)) /\ UNCHANGED pc
          ELSE Commit(IdNode(Mem, tokens[token].value)) /\ UNCHANGED pc
    /\ UNCHANGED <<tokens, sinks, script, stack>>

NewIntNode ==
    /\ CanAlloc
    /\ Commit(IntNode(Mem))
    /\ UNCHANGED <<tokens, sinks, pc, script, stack>>

NewBoolNode ==
    /\ CanAlloc
    /\ Commit(BoolNode(Mem))
    /\ UNCHANGED <<tokens, sinks, pc, script, stack>>

NewVoidNode ==
    /\ CanAlloc
    /\ Commit(VoidNode(Mem))
    /\ UNCHANGED <<tokens, sinks, pc, script, stack>>

NewStructDeclNode ==
    /\ CanAlloc
    /\ \E id \in Ptr({"IdNode"}) : \E declList \in Ptr({"DeclListNode"}) :
          Commit(StructDeclNode(Mem, id, declList))
    /\ UNCHANGED <<tokens, sinks, pc, script, stack>>

NewStructNode ==
    /\ CanAlloc
    /\ \E id \in Ptr({"IdNode"}) : Commit(StructNode(Mem, id))
    /\ UNCHANGED <<tokens, sinks, pc, script, stack>>

NewFnDeclNode ==
    /\ CanAlloc
    /\ \E type \in Ptr(TypeKinds) : \E id \in Ptr({"IdNode"}) :
       \E formalsList \in Ptr({"FormalsListNode"}) :
       \E fnBody \in Ptr({"FnBodyNode"}) :
          Commit(FnDeclNode(Mem, type, id, formalsList, fnBody))
    /\ UNCHANGED <<tokens, sinks, pc, script, stack>>

NewFormalDeclNode ==
    /\ CanAlloc
    /\ \E type \in Ptr(TypeKinds) : \E id \in Ptr({"IdNode"}) :
          Commit(FormalDeclNode(Mem, type, id))
    /\ UNCHANGED <<tokens, sinks, pc, script, stack>>

NewFormalsListNode ==
    /\ CanAlloc
    /\ \/ \E g \in ListInputs("Formal") :
             LET m == Assemble(Mem, "Formal", g)
             IN  Commit(FormalsListNode(m, Len(m.lists))) /\ UNCHANGED pc
       \/ \E formalDeclList \in WorkLists("Formal") :
             Commit(FormalsListNode(Mem, formalDeclList)) /\ UNCHANGED pc
       \/ NullListDeref("FormalsListNode", "Formal")
    /\ UNCHANGED <<tokens, sinks, script, stack>>

NewFnBodyNode ==
    /\ CanAlloc
    /\ \E declList \in Ptr({"DeclListNode"}) :
       \E stmtList \in Ptr({"StmtListNode"}) :
          Commit(FnBodyNode(Mem, declList, stmtList))
    /\ UNCHANGED <<tokens, sinks, pc, script, stack>>

NewStmtListNode ==
    /\ CanAlloc
    /\ \/ \E g \in ListInputs("Stmt") :
             LET m == Assemble(Mem, "Stmt", g)
             IN  Commit(StmtListNode(m, Len(m.lists))) /\ UNCHANGED pc
       \/ \E stmtList \in WorkLists("Stmt") :
             Commit(StmtListNode(Mem, stmtList)) /\ UNCHANGED pc
       \/ NullListDeref("StmtListNode", "Stmt")
    /\ UNCHANGED <<tokens, sinks, script, stack>>

NewAssignStmtNode ==
    /\ CanAlloc
    /\ \E assignNode \in Ptr({"AssignNode"}) :
          Commit(AssignStmtNode(Mem, assignNode))
    /\ UNCHANGED <<tokens, sinks, pc, script, stack>>

NewAssignNode ==
    /\ CanAlloc
    /\ \E expNode1 \in Ptr(ExpKinds) : \E expNode2 \in Ptr(ExpKinds) :
          Commit(AssignNode(Mem, expNode1, expNode2))
    /\ UNCHANGED <<tokens, sinks, pc, script, stack>>

NewDotAccessNode ==
    /\ CanAlloc
    /\ \E expNode \in Ptr(ExpKinds) : \E id \in Ptr({"IdNode"}) :
          Commit(DotAccessNode(Mem, expNode, id))
    /\ UNCHANGED <<tokens, sinks, pc, script, stack>>

NewIntLitNode ==
    /\ CanAlloc
    /\ \E intLit \in TokPtr("INT") : Commit(IntLitNode(Mem, intLit))
    /\ UNCHANGED <<tokens, sinks, pc, script, stack>>

NewStrLitNode ==
    /\ CanAlloc
    /\ \E stringLit \in TokPtr("STR") : Commit(StrLitNode(Mem, stringLit))
    /\ UNCHANGED <<tokens, sinks, pc, script, stack>>

NewTrueNode ==
    /\ CanAlloc
    /\ Commit(TrueNode(Mem))
    /\ UNCHANGED <<tokens, sinks, pc, script, stack>>

Construct ==
    \/ NewProgramNode \/ NewExpListNode \/ NewDeclListNode
    \/ NewVarDeclNode \/ NewIdNode \/ NewIntNode \/ NewBoolNode
    \/ NewVoidNode \/ NewStructDeclNode \/ NewStructNode
    \/ NewFnDeclNode \/ NewFormalDeclNode \/ NewFormalsListNode
    \/ NewFnBodyNode \/ NewStmtListNode \/ NewAssignStmtNode
    \/ NewAssignNode \/ NewDotAccessNode \/ NewIntLitNode
    \/ NewStrLitNode \/ NewTrueNode

Builder == PushBack \/ PopFront \/ ClearList

Lexer == LexToken \/ ReuseToken

\* The whole program: the parser's construction calls, the builder's later
\* use of its working lists, and the lexer.
Next ==
    \/ Len(heap) < MaxNodes /\ Construct
    \/ Builder
    \/ Lexer

Spec == Init /\ [][Next]_vars

\* Construction alone: the client's calls and the builder's working lists.
NextBuild ==
    \/ Len(heap) < MaxTreeNodes /\ Construct
    \/ Builder

SpecBuild == Init /\ [][NextBuild]_vars

\* ================================================================ unparse
\* The sink is an output stream, modelled as the sequence of the pieces
\* written to it: one piece per character of layout and of numbers, one
\* piece per keyword, identifier or string literal.

doIndentWide(out, indent) ==
    LET RECURSIVE loop(_, _)
        loop(o, k) ==
            IF k < indent THEN loop(o \o <<" ", " ">>, k + 1) ELSE o
    IN  loop(out, 0)

doIndentOffByOne(out, indent) ==
    LET RECURSIVE loop(_, _)
        loop(o, k) == IF k <= indent THEN loop(Append(o, " "), k + 1) ELSE o
    IN  loop(out, 0)

\* for (int k = 0 ; k < indent; k++){ out << " "; }
doIndent(out, indent) ==
    LET RECURSIVE loop(_, _)
        loop(o, k) == IF k < indent THEN loop(Append(o, " "), k + 1) ELSE o
    IN  loop(out, 0)

Digits == <<"0", "1", "2", "3", "4", "5", "6", "7", "8", "9">>

RECURSIVE NatToStr(_)
NatToStr(n) ==
    IF n < 10
    THEN <<Digits[n + 1]>>
    ELSE Append(NatToStr(n \div 10), Digits[(n % 10) + 1])

\* out << i for an int: decimal, a minus sign for a negative value.
IntToStr(i) == IF i < 0 THEN <<"-">> \o NatToStr(0 - i) ELSE NatToStr(i)

\* unparse(out, indent) of the node at address a, as the pieces it writes to
\* out, in order.
RECURSIVE unparse(_, _, _)
RECURSIVE unparseEach(_, _, _)
RECURSIVE unparseCommaList(_, _, _)

\* Each member in stored order, at the indent the list node received.
unparseEach(m, elems, indent) ==
    IF elems = <<>>
    THEN <<>>
    ELSE unparse(m, Head(elems), indent) \o unparseEach(m, Tail(elems), indent)

\* Members inline, separated by a comma and a space.
unparseCommaList(m, elems, indent) ==
    IF elems = <<>>
    THEN <<>>
    ELSE IF Tail(elems) = <<>>
         THEN unparse(m, Head(elems), indent)
         ELSE unparse(m, Head(elems), indent) \o <<",", " ">>
                  \o unparseCommaList(m, Tail(elems), indent)

unparseVarDecl(m, n, indent) ==
    doIndent(<<>>, indent)
        \o unparse(m, n.myType, 0) \o <<" ">> \o unparse(m, n.myId, 0)
        \o (IF n.mySize # NOT_STRUCT
            THEN <<"[">> \o IntToStr(n.mySize) \o <<"]">>
            ELSE <<>>)
        \o <<";", "\n">>

unparseStructDecl(m, n, indent) ==
    doIndent(<<>>, indent)
        \o <<"struct", " ">> \o unparse(m, n.myId, 0) \o <<"{", "\n">>
        \o unparse(m, n.myDeclList, indent + 1)
        \o doIndent(<<>>, indent) \o <<"}", ";", "\n">>

unparseFnDecl(m, n, indent) ==
    doIndent(<<>>, indent)
        \o unparse(m, n.myType, 0) \o <<" ">> \o unparse(m, n.myId, 0)
        \o <<"(">> \o unparse(m, n.myFormalsList, 0) \o <<")", "{", "\n">>
        \o unparse(m, n.myFnBody, indent + 1)
        \o doIndent(<<>>, indent) \o <<"}", "\n">>

unparseFormalDecl(m, n, indent) ==
    unparse(m, n.myType, 0) \o <<" ">> \o unparse(m, n.myId, 0)

unparseFnBody(m, n, indent) ==
    unparse(m, n.myDeclList, indent) \o unparse(m, n.myStmtList, indent)

unparseAssignStmt(m, n, indent) ==
    doIndent(<<>>, indent) \o unparse(m, n.myAssignNode, 0) \o <<";", "\n">>

\* Fully parenthesized, so that nesting survives in the text.
unparseAssign(m, n, indent) ==
    <<"(">> \o unparse(m, n.myExpNode1, 0) \o <<" ", "=", " ">>
        \o unparse(m, n.myExpNode2, 0) \o <<")">>

unparseDotAccess(m, n, indent) ==
    unparse(m, n.myExp, 0) \o <<".">> \o unparse(m, n.myId, 0)

\* Virtual dispatch on the class of the node at address a.
unparse(m, a, indent) ==
    LET n == m.heap[a]
    IN  CASE n.kind = "ProgramNode" -> unparse(m, n.myDeclList, indent)
          [] n.kind \in {"DeclListNode", "StmtListNode"} ->
                 unparseEach(m, Members(m, n), indent)
          [] n.kind \in {"FormalsListNode", "ExpListNode"} ->
                 unparseCommaList(m, Members(m, n), indent)
          [] n.kind = "VarDeclNode" -> unparseVarDecl(m, n, indent)
          [] n.kind = "StructDeclNode" -> unparseStructDecl(m, n, indent)
          [] n.kind = "FnDeclNode" -> unparseFnDecl(m, n, indent)
          [] n.kind = "FormalDeclNode" -> unparseFormalDecl(m, n, indent)
          [] n.kind = "FnBodyNode" -> unparseFnBody(m, n, indent)
          [] n.kind = "AssignStmtNode" -> unparseAssignStmt(m, n, indent)
          [] n.kind = "AssignNode" -> unparseAssign(m, n, indent)
          [] n.kind = "DotAccessNode" -> unparseDotAccess(m, n, indent)
          [] n.kind = "IdNode" -> <<n.myStrVal>>
          [] n.kind = "IntNode" -> <<"int">>
          [] n.kind = "BoolNode" -> <<"bool">>
          [] n.kind = "VoidNode" -> <<"void">>
          [] n.kind = "StructNode" ->
                 <<"struct", " ">> \o unparse(m, n.myId, 0)
          [] n.kind = "IntLitNode" -> IntToStr(tokens[n.myIntLit].value)
          [] n.kind = "StrLitNode" -> <<tokens[n.myStringLit].value>>
          [] n.kind = "TrueNode" -> <<"true">>

\* ========================================================== the parser
\* The parser is a bottom-up builder: it runs a script of reductions, each
\* of which pops the addresses of the children it needs from the semantic
\* stack, calls one constructor and pushes the address of the new node.

\* The carriers of the lexemes of the programs below.
TokenPool ==
    <<[kind |-> "ID", value |-> "a"], [kind |-> "ID", value |-> "b"],
      [kind |-> "INT", value |-> 12], [kind |-> "STR", value |-> "\"s\""]>>

\* The address of the node built last.
Last(m) == Len(m.heap)

\* Shapes of declarations.
VarShape(t, z) ==
    [shape |-> "var", type |-> t, size |-> z, formals |-> 0,
     decls |-> <<>>, stmts |-> <<>>]

StructShape(ds) ==
    [shape |-> "struct", type |-> "struct", size |-> 0, formals |-> 0,
     decls |-> ds, stmts |-> <<>>]

FnShape(t, f, ds, ss) ==
    [shape |-> "fn", type |-> t, size |-> 0, formals |-> f,
     decls |-> ds, stmts |-> ss]

TopShapes ==
    {VarShape("int", NOT_STRUCT),
     VarShape("struct", -2),
     VarShape("bool", 0),
     StructShape(<<VarShape("int", NOT_STRUCT), VarShape("bool", 3)>>),
     FnShape("int", 2, <<VarShape("int", 3)>>, <<"id=int", "id=true">>),
     FnShape("void", 0, <<StructShape(<<VarShape("int", NOT_STRUCT)>>)>>,
             <<"dot=(id=str)">>)}

\* The programs: at most MaxDecls top-level declarations.
Programs == SeqsUpTo(TopShapes, MaxDecls)

\* One reduction: the constructor to call and its scalar argument (a token
\* carrier, a size or a number of list members).
Reduction(op, arg) == [op |-> op, arg |-> arg]

ScriptType(t) ==
    IF t = "struct"
    THEN <<Reduction("id", 2), Reduction("structtype", 0)>>
    ELSE <<Reduction(t, 0)>>

ScriptFormals(n) ==
    [k \in 1..(3 * n) |->
        CASE k % 3 = 1 -> Reduction("int", 0)
          [] k % 3 = 2 -> Reduction("id", 1)
          [] k % 3 = 0 -> Reduction("formal", 0)]
        \o <<Reduction("formals", n)>>

\* lhs = rhs, for the expression forms of the class table.
ScriptStmt(code) ==
    (CASE code = "id=int" ->
              <<Reduction("id", 1), Reduction("intlit", 3)>>
       [] code = "id=true" ->
              <<Reduction("id", 2), Reduction("true", 0)>>
       [] code = "dot=(id=str)" ->
              <<Reduction("id", 1), Reduction("id", 2), Reduction("dot", 0),
                Reduction("id", 1), Reduction("strlit", 4),
                Reduction("assign", 0)>>)
        \o <<Reduction("assign", 0), Reduction("assignstmt", 0)>>

RECURSIVE ScriptStmts(_)
ScriptStmts(codes) ==
    IF codes = <<>>
    THEN <<>>
    ELSE ScriptStmt(Head(codes)) \o ScriptStmts(Tail(codes))

RECURSIVE ScriptDecl(_)
RECURSIVE ScriptDecls(_)

ScriptDecls(shapes) ==
    IF shapes = <<>>
    THEN <<>>
    ELSE ScriptDecl(Head(shapes)) \o ScriptDecls(Tail(shapes))

ScriptDecl(d) ==
    CASE d.shape = "var" ->
             ScriptType(d.type)
                 \o <<Reduction("id", 1), Reduction("var", d.size)>>
      [] d.shape = "struct" ->
             <<Reduction("id", 2)>> \o ScriptDecls(d.decls)
                 \o <<Reduction("decls", Len(d.decls)),
                      Reduction("structdecl", 0)>>
      [] d.shape = "fn" ->
             ScriptType(d.type) \o <<Reduction("id", 1)>>
                 \o ScriptFormals(d.formals)
                 \o ScriptDecls(d.decls)
                 \o <<Reduction("decls", Len(d.decls))>>
                 \o ScriptStmts(d.stmts)
                 \o <<Reduction("stmts", Len(d.stmts)),
                      Reduction("fnbody", 0), Reduction("fndecl", 0)>>

ScriptProgram(shapes) ==
    ScriptDecls(shapes)
        \o <<Reduction("decls", Len(shapes)), Reduction("program", 0)>>

\* The j-th address from the top of the semantic stack (0 is the top).
At(st, j) == st[Len(st) - j]

\* The top k addresses of the stack, oldest first.
TopK(st, k) == SubSeq(st, Len(st) - k + 1, Len(st))

\* The memory after a reduction that built one node from k children.
Reduced(m, st, k) ==
    [m |-> m, stack |-> Append(SubSeq(st, 1, Len(st) - k), Last(m))]

\* The constructor call of one reduction.
Reduce(m, st, r) ==
    CASE r.op = "int" -> Reduced(IntNode(m), st, 0)
      [] r.op = "bool" -> Reduced(BoolNode(m), st, 0)
      [] r.op = "void" -> Reduced(VoidNode(m), st, 0)
      [] r.op = "true" -> Reduced(TrueNode(m), st, 0)
      [] r.op = "id" -> Reduced(IdNode(m, tokens[r.arg].value), st, 0)
      [] r.op = "intlit" -> Reduced(IntLitNode(m, r.arg), st, 0)
      [] r.op = "strlit" -> Reduced(StrLitNode(m, r.arg), st, 0)
      [] r.op = "structtype" -> Reduced(StructNode(m, At(st, 0)), st, 1)
      [] r.op = "var" ->
             Reduced(VarDeclNode(m, At(st, 1), At(st, 0), r.arg), st, 2)
      [] r.op = "formal" ->
             Reduced(FormalDeclNode(m, At(st, 1), At(st, 0)), st, 2)
      [] r.op = "decls" ->
             Reduced(DeclListNode(Assemble(m, "Decl", TopK(st, r.arg)),
                                  Len(m.lists) + 1), st, r.arg)
      [] r.op = "stmts" ->
             Reduced(StmtListNode(Assemble(m, "Stmt", TopK(st, r.arg)),
                                  Len(m.lists) + 1), st, r.arg)
      [] r.op = "formals" ->
             Reduced(FormalsListNode(Assemble(m, "Formal", TopK(st, r.arg)),
                                     Len(m.lists) + 1), st, r.arg)
      [] r.op = "structdecl" ->
             Reduced(StructDeclNode(m, At(st, 1), At(st, 0)), st, 2)
      [] r.op = "fnbody" ->
             Reduced(FnBodyNode(m, At(st, 1), At(st, 0)), st, 2)
      [] r.op = "fndecl" ->
             Reduced(FnDeclNode(m, At(st, 3), At(st, 2), At(st, 1),
                                At(st, 0)), st, 4)
      [] r.op = "assign" ->
             Reduced(AssignNode(m, At(st, 1), At(st, 0)), st, 2)
      [] r.op = "dot" ->
             Reduced(DotAccessNode(m, At(st, 1), At(st, 0)), st, 2)
      [] r.op = "assignstmt" ->
             Reduced(AssignStmtNode(m, At(st, 0)), st, 1)
      [] r.op = "program" -> Reduced(ProgramNode(m, At(st, 0)), st, 1)

\* The parser is about to parse one of the programs.
InitRender ==
    /\ heap = <<>>
    /\ lists = <<>>
    /\ tokens = TokenPool
    /\ sinks = [s \in Sinks |-> NoRender]
    /\ pc = "parsing"
    /\ script \in {ScriptProgram(prog) : prog \in Programs}
    /\ stack = <<>>

\* The next reduction of the parse; after the last one the tree is handed
\* to the client.
ParserStep ==
    /\ pc = "parsing"
    /\ script # <<>>
    /\ LET r == Reduce(Mem, stack, Head(script))
       IN  Commit(r.m) /\ stack' = r.stack
    /\ script' = Tail(script)
    /\ pc' = IF Tail(script) = <<>> THEN "rendering" ELSE "parsing"
    /\ UNCHANGED <<tokens, sinks>>

\* ------------------------------------------------------------- rendering
\* The nodes a client starts a render at: the program, a declaration or a
\* statement.
RenderRoots ==
    NodesOf({"ProgramNode", "VarDeclNode", "StructDeclNode", "FnDeclNode"}
                \cup StmtKinds)

RenderConsuming(s, root, indent) ==
    /\ pc = "rendering"
    /\ sinks[s] = NoRender
    /\ sinks' = [sinks EXCEPT ![s] =
                    [op |-> "unparse", root |-> root, indent |-> indent,
                     before |-> sinks[s].out,
                     out |-> sinks[s].out \o unparse(Mem, root, indent)]]
    /\ lists' = [l \in 1..Len(lists) |->
                    IF lists[l].owner \in ({root} \cup Descendants(root))
                    THEN [lists[l] EXCEPT !.elems = <<>>]
                    ELSE lists[l]]
    /\ UNCHANGED <<heap, tokens, pc, script, stack>>

\* root->unparse(out, indent) on an empty sink.
Render(s, root, indent) ==
    /\ pc = "rendering"
    /\ sinks[s] = NoRender
    /\ sinks' = [sinks EXCEPT ![s] =
                    [op |-> "unparse", root |-> root, indent |-> indent,
                     before |-> sinks[s].out,
                     out |-> sinks[s].out \o unparse(Mem, root, indent)]]
    /\ UNCHANGED <<heap, lists, tokens, pc, script, stack>>

NextRender ==
    \/ ParserStep
    \/ \E s \in Sinks : \E root \in RenderRoots : \E indent \in 0..MaxIndent :
        Render(s, root, indent)

SpecRender == InitRender /\ [][NextRender]_vars

\* ------------------------------------------------------ doIndent by itself
\* node->doIndent(out, indent), on a sink that may hold earlier output.
CallDoIndent(s, indent) ==
    /\ Len(sinks[s].out) + indent <= MaxOut
    /\ \E node \in Addrs :
          sinks' = [sinks EXCEPT ![s] =
                       [op |-> "doIndent", root |-> node, indent |-> indent,
                        before |-> sinks[s].out,
                        out |-> doIndent(sinks[s].out, indent)]]
    /\ UNCHANGED <<heap, lists, tokens, pc, script, stack>>

NextIndent ==
    \/ Len(heap) < 1 /\ (NewIntNode \/ NewTrueNode)
    \/ \E s \in Sinks : \E indent \in (0 - MaxIndent)..MaxIndent :
          CallDoIndent(s, indent)

SpecIndent == Init /\ [][NextIndent]_vars

\* ======================================================= construction claims

\* The nodes that hold a as a child.
Parents(a) == {q \in Addrs : a \in ChildSet(q)}

\* C3: no node is referenced as a child by two distinct parent nodes; every
\* node has at most one parent.
C3_ExclusiveOwnership ==
    \A a \in Addrs : Cardinality(Parents(a)) <= 1

\* C7: the parent-to-child relation has no cycle: no node is reachable from
\* itself through child pointers or list members.
C7_Acyclic ==
    \A a \in Addrs : a \notin Descendants(a)

\* C7 witness: a composite node was built over an already-built child.
C7_Witness ==
    \E a \in Addrs : Descendants(a) # {}

\* C5: every child field of every constructed node and every element of
\* every list node is non-null.
C5_NoNullChild ==
    \A a \in Addrs : null \notin ChildSet(a)

\* C4: once a list node exists, its member sequence (elements, order,
\* length) and its fields never change, whatever the builder later does to
\* its working sequences.
C4_FrozenList ==
    [][\A a \in Addrs :
          heap[a].kind \in ListKinds =>
              /\ heap'[a] = heap[a]
              /\ Members(Mem, heap[a])' = Members(Mem, heap[a])]_vars

\* C4 witness: the working list a list node was built from has been changed
\* since, and differs from the node's members.
C4_Witness ==
    \E a \in Addrs :
        /\ heap[a].kind \in ListKinds
        /\ ListOf(heap[a]) > 1
        /\ LET w == lists[ListOf(heap[a]) - 1]
           IN  /\ w.owner = 0
               /\ w.elems # Members(Mem, heap[a])

TokenLeafKinds == {"IdNode", "IntLitNode", "StrLitNode"}

\* The carrier a literal node reads its value through (null for an IdNode,
\* which holds its own copy).
CarrierOf(n) ==
    CASE n.kind = "IntLitNode" -> n.myIntLit
      [] n.kind = "StrLitNode" -> n.myStringLit
      [] OTHER -> null

\* The value a leaf node built from a token carrier holds and renders.
NodeValue(n) ==
    CASE n.kind = "IdNode" -> n.myStrVal
      [] n.kind \in {"IntLitNode", "StrLitNode"} ->
             IF CarrierOf(n) = null THEN null ELSE tokens[CarrierOf(n)].value

\* C6: a leaf node built from a token carrier keeps no reference to the
\* carrier, and the value it holds is the carrier's value at construction,
\* whatever the lexer later does to the carrier.
C6_ValueCapturedOnce ==
    [][\A a \in Addrs :
          heap[a].kind \in TokenLeafKinds =>
              NodeValue(heap[a])' = NodeValue(heap[a])]_vars

\* =========================================================== render claims

Rendered(s) == sinks[s].op = "unparse"

LineStarts(out) ==
    {p \in 1..Len(out) : p = 1 \/ out[p - 1] = "\n"}

\* The number of space pieces a line starting at p begins with.
LeadingSpaces(out, p) ==
    CHOOSE k \in 0..Len(out) :
        /\ \A j \in 0..(k - 1) : out[p + j] = " "
        /\ p + k <= Len(out)
        /\ out[p + k] # " "

\* The leading spaces of the lines of a text, line by line.
IndentsOf(out) ==
    LET starts == LineStarts(out)
        nth(k) == CHOOSE p \in starts :
                      Cardinality({q \in starts : q < p}) = k - 1
    IN  [k \in 1..Cardinality(starts) |-> LeadingSpaces(out, nth(k))]

RECURSIVE LineDepths(_, _)
RECURSIVE LineDepthsEach(_, _)

LineDepthsEach(elems, d) ==
    IF elems = <<>>
    THEN <<>>
    ELSE LineDepths(Head(elems), d) \o LineDepthsEach(Tail(elems), d)

\* The nesting depth, below the node at a taken as depth d, of each line
\* the tree at a occupies: a declaration or statement is one line at its
\* depth, a struct or function is a header and a closing line at its depth
\* around a body one level deeper.
LineDepths(a, d) ==
    LET n == heap[a]
    IN  CASE n.kind = "ProgramNode" -> LineDepths(n.myDeclList, d)
          [] n.kind \in {"DeclListNode", "StmtListNode"} ->
                 LineDepthsEach(Members(Mem, n), d)
          [] n.kind \in {"VarDeclNode", "AssignStmtNode"} -> <<d>>
          [] n.kind = "StructDeclNode" ->
                 <<d>> \o LineDepths(n.myDeclList, d + 1) \o <<d>>
          [] n.kind = "FnDeclNode" ->
                 <<d>> \o LineDepths(n.myFnBody, d + 1) \o <<d>>
          [] n.kind = "FnBodyNode" ->
                 LineDepths(n.myDeclList, d) \o LineDepths(n.myStmtList, d)
          [] OTHER -> <<>>

\* C8: in a render started at any level, a line at nesting depth d below
\* the root is indented by the start level plus d: the body of a compound
\* construct at level L is at L + 1, and what follows the body is at L again.
C8_Indentation ==
    \A s \in Sinks :
        Rendered(s) =>
            LET depths == LineDepths(sinks[s].root, 0)
            IN  IndentsOf(sinks[s].out) =
                    [k \in 1..Len(depths) |-> sinks[s].indent + depths[k]]

\* C8 witness: a render started above level 0 of a program with a body
\* nested two deep, and with a sibling right after a closed body.
C8_Witness ==
    \E s \in Sinks :
        /\ Rendered(s)
        /\ sinks[s].indent > 0
        /\ heap[sinks[s].root].kind = "ProgramNode"
        /\ LET depths == LineDepths(sinks[s].root, 0)
           IN  /\ \E i \in 1..Len(depths) : depths[i] = 2
               /\ \E j \in 1..(Len(depths) - 2) :
                     depths[j] = 1 /\ depths[j + 1] = 0 /\ depths[j + 2] = 0

DigitValue(c) == CHOOSE d \in 0..9 : Digits[d + 1] = c

RECURSIVE ParseNat(_)
ParseNat(str) ==
    IF Len(str) = 1
    THEN DigitValue(str[1])
    ELSE 10 * ParseNat(SubSeq(str, 1, Len(str) - 1)) + DigitValue(str[Len(str)])

\* The int a decimal numeral denotes.
ParseInt(str) ==
    IF str[1] = "-" THEN 0 - ParseNat(Tail(str)) ELSE ParseNat(str)

IsNumeral(str) ==
    /\ str # <<>>
    /\ LET ds == IF str[1] = "-" THEN Tail(str) ELSE str
       IN  ds # <<>> /\ \A i \in 1..Len(ds) : \E d \in 0..9 : Digits[d + 1] = ds[i]

\* C9: a VarDeclNode whose size is -1 (NOT_STRUCT) renders with no size
\* suffix; with any other size, 0 and the other negatives included, it
\* renders that size, in decimal, as a suffix right before the terminator.
C9_Sentinel ==
    \A s \in Sinks :
        (Rendered(s) /\ heap[sinks[s].root].kind = "VarDeclNode") =>
            LET o == sinks[s].out
                size == heap[sinks[s].root].mySize
                brackets == {i \in 1..Len(o) : o[i] \in {"[", "]"}}
            IN  /\ Len(o) >= 2
                /\ o[Len(o)] = "\n"
                /\ o[Len(o) - 1] = ";"
                /\ IF size = -1
                   THEN brackets = {}
                   ELSE \E i \in 1..(Len(o) - 4) :
                           /\ brackets = {i, Len(o) - 2}
                           /\ o[i] = "["
                           /\ o[Len(o) - 2] = "]"
                           /\ IsNumeral(SubSeq(o, i + 1, Len(o) - 3))
                           /\ ParseInt(SubSeq(o, i + 1, Len(o) - 3)) = size

\* C9 witness: a declaration with the sentinel and one with another negative
\* size have both been rendered.
C9_Witness ==
    /\ Rendered(1) /\ Rendered(2)
    /\ heap[sinks[1].root].kind = "VarDeclNode"
    /\ heap[sinks[2].root].kind = "VarDeclNode"
    /\ heap[sinks[1].root].mySize = -1
    /\ heap[sinks[2].root].mySize = -2

\* C10: doIndent appends exactly indent space pieces to the sink, and
\* nothing else, for indent >= 0, and nothing at all for a negative indent.
C10_DoIndent ==
    \A s \in Sinks :
        sinks[s].op = "doIndent" =>
            LET o == sinks[s].out
                b == sinks[s].before
                n == IF sinks[s].indent > 0 THEN sinks[s].indent ELSE 0
            IN  /\ Len(o) = Len(b) + n
                /\ SubSeq(o, 1, Len(b)) = b
                /\ \A i \in (Len(b) + 1)..Len(o) : o[i] = " "

\* C10 witness: doIndent was called with a negative indent on one sink and
\* with a positive indent on another, each holding earlier output.
C10_Witness ==
    /\ sinks[1].op = "doIndent" /\ sinks[1].indent < 0
    /\ sinks[2].op = "doIndent" /\ sinks[2].indent > 0
    /\ sinks[1].before # <<>>
    /\ sinks[2].before # <<>>

====
